---- MODULE Spec2Model ----
(***************************************************************************)
(* Trello MCP server: the tool dispatch boundary (index.ts), the tool      *)
(* handlers, the resource adapters and the rate-limited request gateway    *)
(* (BaseService / TrelloService).                                          *)
(*                                                                         *)
(* Strings are modelled as sequences of tokens, so that building a URL,    *)
(* testing url.includes('?') and searching a log line for a credential     *)
(* are computed on the text the code produces.                             *)
(***************************************************************************)
EXTENDS Integers, Sequences, FiniteSets, TLC

\* ------------------------------------------------------------------ bounds
MaxTime == 3
MaxSends == 3
NumCalls == 2
MaxInits == 2

Calls == 1..NumCalls

\* ------------------------------------------------------- program constants
RateLimitBuffer == 5
InitialRemaining == 100
InitialReset == 0

apiKey == <<"K3Y">>
token == <<"T0K">>

\* ------------------------------------------------------------------- state
VARIABLES
    now,                \* Math.floor(Date.now() / 1000)
    rateLimitRemaining, \* BaseService.rateLimitRemaining
    rateLimitReset,     \* BaseService.rateLimitReset
    logs,               \* lines written by console.warn / console.error
    pc,                 \* where each tool call stands
    input,              \* the tool name and argument object of each call
    started,            \* the counters read by the call's checkRateLimit, while it runs
    sends,              \* the requests each call handed to the HTTP client
    resp,               \* the latest response of each call, with its config
    n429,               \* 429 responses each call has received
    wake,               \* when the call's pending setTimeout fires
    gw,                 \* what the Gateway call returned or threw
    adapter,            \* what the adapter method returned or threw
    raised,             \* the exception the handler raised, if any
    outcome,            \* what the CallTool handler returned or threw
    credentials,        \* TrelloService.apiKey and TrelloService.token
    instance,           \* TrelloService.instance and ServiceFactory.instance
    handlerTable,       \* the properties of the trelloToolHandlers object
    inits               \* the initialize calls made so far: arguments and result

\* ------------------------------------------------------------- JS values
Undef == [t |-> "undef"]
Null == [t |-> "null"]
Str(s) == [t |-> "str", s |-> s]
Bool(b) == [t |-> "bool", b |-> b]
Arr(a) == [t |-> "arr", a |-> a]
Obj(f) == [t |-> "obj", f |-> f]

\* obj.name : the value of the first field called name, undefined when absent
Get(o, name) ==
    IF \E i \in 1..Len(o.f) : o.f[i][1] = name
    THEN o.f[CHOOSE i \in 1..Len(o.f) : o.f[i][1] = name][2]
    ELSE Undef

\* !v is false
Truthy(v) ==
    CASE v.t = "bool" -> v.b
      [] v.t = "str" -> v.s # <<>>
      [] v.t = "arr" -> TRUE
      [] v.t = "obj" -> TRUE
      [] OTHER -> FALSE

RECURSIVE Join(_, _)
Join(a, sep) ==
    IF a = <<>> THEN <<>>
    ELSE IF Len(a) = 1 THEN a[1]
    ELSE a[1] \o <<sep>> \o Join(Tail(a), sep)

\* String(v) and `${v}`
ToStr(v) ==
    CASE v.t = "str" -> v.s
      [] v.t = "bool" -> IF v.b THEN <<"true">> ELSE <<"false">>
      [] v.t = "arr" -> Join(v.a, ",")
      [] v.t = "obj" -> <<"[object Object]">>
      [] OTHER -> <<"undefined">>

Includes(s, tok) == \E i \in 1..Len(s) : s[i] = tok

\* ------------------------------------------------- TrelloService URL code
EncodeTok(c) ==
    CASE c = "?" -> "%3F"
      [] c = "&" -> "%26"
      [] c = "=" -> "%3D"
      [] c = "," -> "%2C"
      [] OTHER -> c

EncodeURIComponent(s) == [i \in 1..Len(s) |-> EncodeTok(s[i])]

ParamValueFirst(v) == IF v.t = "arr" /\ v.a # <<>> THEN v.a[1] ELSE ToStr(v)

\* Array.isArray(value) ? value.join(',') : String(value)
ParamValue(v) == IF v.t = "arr" THEN Join(v.a, ",") ELSE ToStr(v)

RECURSIVE QueryString(_)
QueryString(params) ==
    IF params = <<>> THEN <<>>
    ELSE LET p == params[1]
             rest == QueryString(Tail(params))
         IN IF p[2].t \in {"undef", "null"} THEN rest
            ELSE LET one == EncodeURIComponent(p[1]) \o <<"=">>
                            \o EncodeURIComponent(ParamValue(p[2]))
                 IN IF rest = <<>> THEN one ELSE one \o <<"&">> \o rest

addAuth(url) ==
    LET separator == IF Includes(url, "?") THEN "&" ELSE "?"
    IN url \o <<separator, "key", "=">> \o credentials.apiKey
           \o <<"&", "token", "=">> \o credentials.token

createUrl(endpoint, params) ==
    LET queryString == QueryString(params)
    IN addAuth(endpoint \o (IF queryString # <<>> THEN <<"?">> \o queryString ELSE <<>>))


\* ------------------------------------------------------ JSON.stringify
\* flat values: objects of strings, booleans and arrays of strings
StringifyScalar(v) ==
    CASE v.t = "str" -> <<"\"">> \o v.s \o <<"\"">>
      [] v.t = "bool" -> IF v.b THEN <<"true">> ELSE <<"false">>
      [] v.t = "arr" -> <<"[">> \o Join([i \in 1..Len(v.a) |-> <<"\"">> \o v.a[i] \o <<"\"">>], ",") \o <<"]">>
      [] v.t = "null" -> <<"null">>
      [] OTHER -> <<>>

RECURSIVE StringifyFields(_)
StringifyFields(f) ==
    IF f = <<>> THEN <<>>
    ELSE LET rest == StringifyFields(Tail(f))
         IN IF f[1][2].t = "undef" THEN rest
            ELSE LET one == <<"\"">> \o f[1][1] \o <<"\"", ":">> \o StringifyScalar(f[1][2])
                 IN IF rest = <<>> THEN one ELSE one \o <<",">> \o rest

Stringify(v) ==
    IF v.t = "obj" THEN <<"{">> \o StringifyFields(v.f) \o <<"}">>
    ELSE StringifyScalar(v)

\* ------------------------------------------- TrelloService get/post/put/delete
\* the request handed to the HTTP client by each verb; params defaults to {}
\* and data defaults to {} when undefined
Entries(o) == IF o.t = "obj" THEN o.f ELSE <<>>

get(endpoint, params) ==
    [method |-> "GET", url |-> createUrl(endpoint, Entries(params)), data |-> Undef]

post(endpoint, data, params) ==
    [method |-> "POST", url |-> createUrl(endpoint, Entries(params)),
     data |-> IF data.t = "undef" THEN Obj(<<>>) ELSE data]

put(endpoint, data, params) ==
    [method |-> "PUT", url |-> createUrl(endpoint, Entries(params)),
     data |-> IF data.t = "undef" THEN Obj(<<>>) ELSE data]

deleteAsGet(endpoint, params) == get(endpoint, params)

delete(endpoint, params) ==
    [method |-> "DELETE", url |-> createUrl(endpoint, Entries(params)), data |-> Undef]

\* ------------------------------------------------------------- effects
Throw(name, msg) == [k |-> "throw", name |-> name, msg |-> msg]
Return(v) == [k |-> "return", value |-> v]

\* what an adapter method does with the value its Gateway call resolved to
Identity == [t |-> "identity"]
Avatar(size) == [t |-> "avatar", size |-> size]

\* a handler that awaits one adapter method: the Gateway request, what the
\* adapter does with its result (then), and what the handler returns (ret,
\* undefined when it returns the adapter's value)
CallThen(req, then, ret) == [k |-> "call", req |-> req, then |-> then, ret |-> ret]
Call(req, ret) == CallThen(req, Identity, ret)

\* ------------------------------------------------------- resource adapters
getBoards(filters) == get(<<"/members/me/boards">>, filters)
getBoard(boardId) == get(<<"/boards/">> \o ToStr(boardId), Undef)
createCardAsParams(data) ==
    [method |-> "POST", url |-> createUrl(<<"/cards">>, Entries(data)), data |-> Obj(<<>>)]

createCard(data) == post(<<"/cards">>, data, Undef)
updateCardAsGet(cardId, data) == get(<<"/cards/">> \o ToStr(cardId), Undef)

updateCard(cardId, data) == put(<<"/cards/">> \o ToStr(cardId), data, Undef)
archiveCard(cardId) == updateCard(cardId, Obj(<< <<(<<"closed">>), Bool(TRUE)>> >>))
moveCardToList(cardId, listId) == updateCard(cardId, Obj(<< <<(<<"idList">>), listId>> >>))
setDueDate(cardId, due) == updateCard(cardId, Obj(<< <<(<<"due">>), due>> >>))
setDueComplete(cardId, dueComplete) ==
    updateCard(cardId, Obj(<< <<(<<"dueComplete">>), dueComplete>> >>))
getMe == get(<<"/members/me">>, Undef)
getList(listId) == get(<<"/lists/">> \o ToStr(listId), Undef)

\* MemberService.getAvatar from the point where getMe has resolved to me
getAvatar(size, me) ==
    LET sz == IF size.t = "undef" THEN Str(<<"original">>) ELSE size
        avatarUrl == IF me.t = "obj" THEN Get(me, <<"avatarUrl">>) ELSE Undef
    IN IF ~Truthy(avatarUrl) THEN Throw("Error", <<"Member does not have an avatar">>)
       ELSE IF sz = Str(<<"original">>) THEN Return(avatarUrl)
       ELSE Return(Str(ToStr(avatarUrl) \o <<"/">> \o ToStr(sz) \o <<".png">>))

\* the rest of an adapter method once its Gateway call has resolved to data
AdapterReturn(then, data) ==
    IF then.t = "avatar" THEN getAvatar(then.size, data) ELSE Return(data)

deleteBoard(boardId) == delete(<<"/boards/">> \o ToStr(boardId), Undef)
deleteCard(cardId) == delete(<<"/cards/">> \o ToStr(cardId), Undef)
deleteLabel(labelId) == delete(<<"/labels/">> \o ToStr(labelId), Undef)
deleteChecklist(checklistId) == delete(<<"/checklists/">> \o ToStr(checklistId), Undef)
deleteCheckItem(checklistId, checkItemId) ==
    delete(<<"/checklists/">> \o ToStr(checklistId) \o <<"/checkItems/">> \o ToStr(checkItemId), Undef)
deleteAttachment(cardId, attachmentId) ==
    delete(<<"/cards/">> \o ToStr(cardId) \o <<"/attachments/">> \o ToStr(attachmentId), Undef)

\* ----------------------------------------------------------- tool handlers
\* A handler runs up to its Gateway call: it throws, or it issues the call
\* and then either returns the call's data or a fixed success object.
ConfirmMessage == <<"Deletion requires confirmation. Set confirm: true to proceed.">>
Deleted(what) ==
    Obj(<< <<(<<"success">>), Bool(TRUE)>>,
           <<(<<"message">>), Str(<<what, " deleted successfully">>)>> >>)

\* args.field on an undefined args object
ReadOfUndefined(field) ==
    Throw("TypeError", <<"Cannot read properties of undefined (reading '">> \o field \o <<"')">>)

get_boards(args) == Call(getBoards(args), Undef)

get_board(args) ==
    IF args.t = "undef" THEN ReadOfUndefined(<<"boardId">>)
    ELSE Call(getBoard(Get(args, <<"boardId">>)), Undef)

create_card(args) == Call(createCard(args), Undef)

delete_board(args) ==
    IF args.t = "undef" THEN ReadOfUndefined(<<"confirm">>)
    ELSE IF ~Truthy(Get(args, <<"confirm">>)) THEN Throw("Error", ConfirmMessage)
    ELSE Call(deleteBoard(Get(args, <<"boardId">>)), Deleted("Board"))

delete_card(args) ==
    IF args.t = "undef" THEN ReadOfUndefined(<<"confirm">>)
    ELSE IF ~Truthy(Get(args, <<"confirm">>)) THEN Throw("Error", ConfirmMessage)
    ELSE Call(deleteCard(Get(args, <<"cardId">>)), Deleted("Card"))

delete_label(args) ==
    IF args.t = "undef" THEN ReadOfUndefined(<<"confirm">>)
    ELSE IF ~Truthy(Get(args, <<"confirm">>)) THEN Throw("Error", ConfirmMessage)
    ELSE Call(deleteLabel(Get(args, <<"labelId">>)), Deleted("Label"))

delete_checklist(args) ==
    IF args.t = "undef" THEN ReadOfUndefined(<<"checklistId">>)
    ELSE Call(deleteChecklist(Get(args, <<"checklistId">>)), Deleted("Checklist"))

delete_checkitem(args) ==
    IF args.t = "undef" THEN ReadOfUndefined(<<"checklistId">>)
    ELSE Call(deleteCheckItem(Get(args, <<"checklistId">>), Get(args, <<"checkItemId">>)),
              Deleted("Checkitem"))

delete_attachment(args) ==
    IF args.t = "undef" THEN ReadOfUndefined(<<"cardId">>)
    ELSE Call(deleteAttachment(Get(args, <<"cardId">>), Get(args, <<"attachmentId">>)),
              Deleted("Attachment"))

\* own properties of the merged handler object (the tools modelled here)
archive_card(args) ==
    IF args.t = "undef" THEN ReadOfUndefined(<<"cardId">>)
    ELSE Call(archiveCard(Get(args, <<"cardId">>)), Undef)

move_card_to_list(args) ==
    IF args.t = "undef" THEN ReadOfUndefined(<<"cardId">>)
    ELSE Call(moveCardToList(Get(args, <<"cardId">>), Get(args, <<"listId">>)), Undef)

set_due_date(args) ==
    IF args.t = "undef" THEN ReadOfUndefined(<<"cardId">>)
    ELSE Call(updateCard(Get(args, <<"cardId">>),
                         Obj(<< <<(<<"due">>), Get(args, <<"due">>)>> >>)), Undef)

set_due_complete(args) ==
    IF args.t = "undef" THEN ReadOfUndefined(<<"cardId">>)
    ELSE Call(updateCard(Get(args, <<"cardId">>),
                         Obj(<< <<(<<"dueComplete">>), Get(args, <<"dueComplete">>)>> >>)),
              Undef)

get_avatar(args) ==
    IF args.t = "undef" THEN ReadOfUndefined(<<"size">>)
    ELSE CallThen(getMe, Avatar(Get(args, <<"size">>)), Undef)

get_list(args) ==
    IF args.t = "undef" THEN ReadOfUndefined(<<"listId">>)
    ELSE Call(getList(Get(args, <<"listId">>)), Undef)

\* the two handlers defined in two groups each; both definitions are modelled
getBoardMembers(boardId) == get(<<"/boards/">> \o ToStr(boardId) \o <<"/members">>, Undef)
getBoardLabels(boardId) == get(<<"/boards/">> \o ToStr(boardId) \o <<"/labels">>, Undef)

boardToolHandlers_get_board_members(args) ==
    IF args.t = "undef" THEN ReadOfUndefined(<<"boardId">>)
    ELSE Call(getBoardMembers(Get(args, <<"boardId">>)), Undef)

memberToolHandlers_get_board_membersOfCard(args) ==
    IF args.t = "undef" THEN ReadOfUndefined(<<"boardId">>)
    ELSE Call(get(<<"/cards/">> \o ToStr(Get(args, <<"boardId">>)) \o <<"/members">>, Undef),
              Undef)

memberToolHandlers_get_board_members(args) ==
    IF args.t = "undef" THEN ReadOfUndefined(<<"boardId">>)
    ELSE Call(getBoardMembers(Get(args, <<"boardId">>)), Undef)

boardToolHandlers_get_board_labels(args) ==
    IF args.t = "undef" THEN ReadOfUndefined(<<"boardId">>)
    ELSE Call(getBoardLabels(Get(args, <<"boardId">>)), Undef)

labelToolHandlers_get_board_labels(args) ==
    IF args.t = "undef" THEN ReadOfUndefined(<<"boardId">>)
    ELSE Call(getBoardLabels(Get(args, <<"boardId">>)), Undef)

\* the keys of each handler group, in the order they are written
boardToolHandlers ==
    << "get_boards", "get_board", "create_board", "update_board", "delete_board",
       "get_board_lists", "get_board_members", "get_board_labels", "close_board",
       "reopen_board" >>

listToolHandlers ==
    << "get_list", "create_list", "update_list", "archive_list", "unarchive_list",
       "move_list_to_board", "get_cards_in_list", "archive_all_cards", "move_all_cards",
       "update_list_position", "update_list_name", "subscribe_to_list" >>

cardToolHandlers ==
    << "get_card", "create_card", "update_card", "delete_card", "archive_card",
       "unarchive_card", "move_card_to_list", "add_comment", "get_comments",
       "add_attachment", "get_attachments", "delete_attachment", "add_member",
       "remove_member", "add_label", "remove_label", "set_due_date",
       "set_due_complete" >>

memberToolHandlers ==
    << "get_me", "get_member", "get_member_boards", "get_member_cards",
       "get_boards_invited", "get_member_organizations", "get_notifications",
       "update_me", "get_avatar", "search_members", "get_board_members",
       "get_organization_members", "get_card_members" >>

labelToolHandlers ==
    << "get_label", "create_label", "update_label", "delete_label", "get_board_labels",
       "update_label_name", "update_label_color", "create_label_on_card",
       "get_card_labels", "add_label_to_card", "remove_label_from_card" >>

checklistToolHandlers ==
    << "get_checklist", "create_checklist", "update_checklist", "delete_checklist",
       "get_checkitems", "create_checkitem", "get_checkitem", "update_checkitem",
       "delete_checkitem", "update_checklist_name", "update_checklist_position",
       "get_checklist_board", "get_checklist_card", "update_checkitem_state_on_card" >>

\* the tool names of each advertised group, in array order
boardTools ==
    << "get_boards", "get_board", "create_board", "update_board", "delete_board",
       "get_board_lists", "get_board_members", "get_board_labels", "close_board",
       "reopen_board" >>

listTools ==
    << "get_list", "create_list", "update_list", "archive_list", "unarchive_list",
       "move_list_to_board", "get_cards_in_list", "archive_all_cards", "move_all_cards",
       "update_list_position", "update_list_name", "subscribe_to_list" >>

cardTools ==
    << "get_card", "create_card", "update_card", "delete_card", "archive_card",
       "unarchive_card", "move_card_to_list", "add_comment", "get_comments",
       "add_attachment", "get_attachments", "delete_attachment", "add_member",
       "remove_member", "add_label", "remove_label", "set_due_date",
       "set_due_complete" >>

memberTools ==
    << "get_me", "get_member", "get_member_boards", "get_member_cards",
       "get_boards_invited", "get_member_organizations", "get_notifications",
       "update_me", "get_avatar", "search_members", "get_board_members",
       "get_organization_members", "get_card_members" >>

labelTools ==
    << "get_label", "create_label", "update_label", "delete_label", "get_board_labels",
       "update_label_name", "update_label_color", "create_label_on_card",
       "get_card_labels", "add_label_to_card", "remove_label_from_card" >>

checklistTools ==
    << "get_checklist", "create_checklist", "update_checklist", "delete_checklist",
       "get_checkitems", "create_checkitem", "get_checkitem", "update_checkitem",
       "delete_checkitem", "update_checklist_name", "update_checklist_position",
       "get_checklist_board", "get_checklist_card", "update_checkitem_state_on_card" >>

\* [...boardTools, ...listTools, ...]: the advertised tool list
trelloTools ==
    boardTools \o listTools \o cardTools \o memberTools \o labelTools \o checklistTools

\* the handler groups in the order the object spread merges them
HandlerGroups ==
    << <<"board", boardToolHandlers>>, <<"list", listToolHandlers>>,
       <<"card", cardToolHandlers>>, <<"member", memberToolHandlers>>,
       <<"label", labelToolHandlers>>, <<"checklist", checklistToolHandlers>> >>

Names(q) == {q[i] : i \in 1..Len(q)}

\* the groups that define a handler called toolName, in merge order
Defining(toolName) ==
    SelectSeq([i \in 1..Len(HandlerGroups) |-> HandlerGroups[i][1]],
              LAMBDA g : \E i \in 1..Len(HandlerGroups) :
                            HandlerGroups[i][1] = g /\ toolName \in Names(HandlerGroups[i][2]))

\* a later spread overwrites an earlier key: the group whose handler stays
Winner(toolName) == Defining(toolName)[Len(Defining(toolName))]

\* the handler called toolName as group defines it
HandlerIn(group, toolName, args) ==
    CASE group = "board" /\ toolName = "get_board_members" ->
            boardToolHandlers_get_board_members(args)
      [] group = "member" /\ toolName = "get_board_members" ->
            memberToolHandlers_get_board_members(args)
      [] group = "board" /\ toolName = "get_board_labels" ->
            boardToolHandlers_get_board_labels(args)
      [] group = "label" /\ toolName = "get_board_labels" ->
            labelToolHandlers_get_board_labels(args)

\* the keys of the merged handler object
trelloToolHandlers == UNION {Names(HandlerGroups[i][2]) : i \in 1..Len(HandlerGroups)}

\* properties every object literal inherits from Object.prototype
ObjectPrototypeFunctions == {"toString"}

\* trelloToolHandlers[toolName]
Lookup(toolName) ==
    IF toolName \in handlerTable THEN "handler"
    ELSE IF toolName \in ObjectPrototypeFunctions THEN "inherited"
    ELSE IF toolName = "__proto__" THEN "prototype"
    ELSE "undefined"

\* handler(request.params.arguments)
Invoke(toolName, args) ==
    CASE toolName = "get_boards" -> get_boards(args)
      [] toolName = "get_board" -> get_board(args)
      [] toolName = "create_card" -> create_card(args)
      [] toolName = "delete_board" -> delete_board(args)
      [] toolName = "delete_card" -> delete_card(args)
      [] toolName = "delete_label" -> delete_label(args)
      [] toolName = "delete_checklist" -> delete_checklist(args)
      [] toolName = "delete_checkitem" -> delete_checkitem(args)
      [] toolName = "delete_attachment" -> delete_attachment(args)
      [] toolName = "archive_card" -> archive_card(args)
      [] toolName = "move_card_to_list" -> move_card_to_list(args)
      [] toolName = "set_due_date" -> set_due_date(args)
      [] toolName = "set_due_complete" -> set_due_complete(args)
      [] toolName = "get_avatar" -> get_avatar(args)
      [] toolName = "get_list" -> get_list(args)
      [] toolName \in {"get_board_members", "get_board_labels"} ->
            HandlerIn(Winner(toolName), toolName, args)
      [] toolName = "toString" -> Return(Str(<<"[object Undefined]">>))
      [] OTHER -> Throw("TypeError", <<"handler is not a function">>)

\* the six resource adapters the factory holds
Adapters == {"board", "list", "card", "member", "label", "checklist"}

\* the adapter a handler asks the factory for
AdapterOf(toolName) ==
    CASE toolName \in {"get_boards", "get_board", "delete_board"} -> "board"
      [] toolName = "get_list" -> "list"
      [] toolName \in {"get_avatar", "get_board_members"} -> "member"
      [] toolName \in {"delete_label", "get_board_labels"} -> "label"
      [] toolName \in {"delete_checklist", "delete_checkitem"} -> "checklist"
      [] OTHER -> "card"

ServiceFactoryOwnGateways(trelloService) ==
    [a \in Adapters |-> IF a = "board" THEN trelloService ELSE "TrelloService#2"]

\* the ServiceFactory constructor: the Gateway each adapter is built with
ServiceFactory(trelloService) == [a \in Adapters |-> trelloService]

\* a static instance field that no initialize call has assigned yet
NotInitialized == "undefined"

NotInitializedMessage == <<"ServiceFactory not initialized. Call initialize() first.">>

\* the handlers that test args.confirm before they reach getInstance()
ConfirmFirst == {"delete_board", "delete_card", "delete_label"}

\* a handler run up to its Gateway call: ServiceFactory.getInstance() throws
\* in it while the factory is not initialized
Handle(toolName, args, factory) ==
    LET eff == Invoke(toolName, args)
    IN IF toolName \in ConfirmFirst /\ eff.k = "throw" THEN eff
       ELSE IF toolName \in handlerTable /\ factory = NotInitialized
            THEN Throw("Error", NotInitializedMessage)
       ELSE eff

\* ------------------------------------------------------ numbers and text
Digit(d) == <<"0", "1", "2", "3", "4", "5", "6", "7", "8", "9">>[d + 1]

\* String(n) for an integer
RECURSIVE Dec(_)
Dec(n) ==
    IF n < 0 THEN <<"-">> \o Dec(0 - n)
    ELSE IF n < 10 THEN <<Digit(n)>> ELSE Dec(n \div 10) \o <<Digit(n % 10)>>

\* parseInt(s) for a string of decimal digits
RECURSIVE parseInt(_)
parseInt(s) ==
    IF s = <<>> THEN 0
    ELSE 10 * parseInt(SubSeq(s, 1, Len(s) - 1))
         + (CHOOSE d \in 0..9 : Digit(d) = s[Len(s)])

Max(a, b) == IF a >= b THEN a ELSE b

\* ------------------------------------------------------------- responses
RemainingHeader == "x-ratelimit-remaining"
ResetHeader == "x-ratelimit-reset"
NoHeaders == [h \in {} |-> <<>>]

\* status 0 stands for a network failure: the error carries no response
NetworkError == 0

ErrorMessage(status) ==
    IF status = NetworkError THEN <<"Network Error">>
    ELSE <<"Request failed with status code ">> \o Dec(status)

AxiosError(status, req, data) ==
    [name |-> "AxiosError", msg |-> ErrorMessage(status), status |-> status,
     url |-> req.url, data |-> data]

\* ----------------------------------------------------------- BaseService
getFriendlyErrorMessage(error) ==
    CASE error.status = 400 -> <<"The request was invalid. Please check your input.">>
      [] error.status = 401 -> <<"Authentication failed. Please check your API key.">>
      [] error.status = 403 -> <<"You do not have permission to access this resource.">>
      [] error.status = 404 -> <<"The requested resource was not found.">>
      [] error.status = 429 -> <<"Rate limit exceeded. Please try again later.">>
      [] error.status \in {500, 502, 503, 504} ->
             <<"The server encountered an error. Please try again later.">>
      [] OTHER -> <<"An error occurred: ">> \o error.msg

\* the lines handleRequestError writes for an HTTP client error
handleRequestError(error) ==
    { <<"[ERROR] ", "API Error (">>
         \o (IF error.status = NetworkError THEN <<"undefined">> ELSE Dec(error.status))
         \o <<") for ">> \o error.url \o <<":", " ">>
         \o (IF error.data.t = "undef" THEN <<>> ELSE ToStr(error.data)),
      <<"[ERROR] ", "Friendly error message: ">> \o getFriendlyErrorMessage(error) }

checkRateLimitNoWait(remaining, reset, t) == 0

checkRateLimitEarly(remaining, reset, t) ==
    IF remaining <= RateLimitBuffer + 1 THEN Max(0, reset - t) ELSE 0

\* checkRateLimit: the seconds a new call waits before its request is sent
checkRateLimit(remaining, reset, t) ==
    IF remaining <= RateLimitBuffer THEN Max(0, reset - t) ELSE 0

IsRateLimitedNever(status) == FALSE

IsRateLimitedAnyError(status) == status # 200

\* error interceptor: is the failure absorbed by wait-and-retry
IsRateLimited(status) == status = 429

retryWaitTimeNone(headers, t) == 0

retryWaitTimeSigned(headers, t) ==
    LET resetTime == IF ResetHeader \in DOMAIN headers
                     THEN parseInt(headers[ResetHeader]) ELSE parseInt(<<"0">>)
    IN resetTime - t

\* error interceptor: the seconds to wait before the request is sent again
retryWaitTime(headers, t) ==
    LET resetTime == IF ResetHeader \in DOMAIN headers
                     THEN parseInt(headers[ResetHeader]) ELSE parseInt(<<"0">>)
    IN Max(0, resetTime - t)

\* success interceptor: the tracked counters after a response
updateRemaining(remaining, headers) ==
    IF RemainingHeader \in DOMAIN headers THEN parseInt(headers[RemainingHeader])
    ELSE remaining

updateResetKeep(reset, headers) == reset

updateReset(reset, headers) ==
    IF ResetHeader \in DOMAIN headers THEN parseInt(headers[ResetHeader])
    ELSE reset

\* ------------------------------------------------- CallTool request handler
\* String(error) as written by the redirected console.error
ErrorToString(err) == <<err.name, ": ">> \o err.msg

DispatchLog(err) == <<"[ERROR] ", "Error handling tool call:", " ">> \o ErrorToString(err)

CatchConvertGeneric(err) ==
    IF err.name = "McpError"
    THEN [k |-> "mcp_error", code |-> err.code, text |-> err.msg]
    ELSE [k |-> "result", isError |-> TRUE, text |-> <<"Error: ", "Tool execution failed">>]

\* the catch block of the CallTool handler
CatchConvert(err) ==
    IF err.name = "McpError"
    THEN [k |-> "mcp_error", code |-> err.code, text |-> err.msg]
    ELSE [k |-> "result", isError |-> TRUE, text |-> <<"Error: ">> \o err.msg]

\* the normal return of the CallTool handler
ResultPayload(value) == [k |-> "result", isError |-> FALSE, text |-> Stringify(value)]

MethodNotFound(toolName) ==
    [name |-> "McpError", code |-> "MethodNotFound", msg |-> <<"Unknown tool: ", toolName>>]

\* ------------------------------------------------------------------ inputs
Field(name, v) == <<name, v>>
Args(f) == Obj(f)
Input(toolName, args) == [tool |-> toolName, args |-> args]

WithConfirm(idField, id) ==
    { Args(<<Field(idField, Str(id))>>),
      Args(<<Field(idField, Str(id)), Field(<<"confirm">>, Bool(FALSE))>>),
      Args(<<Field(idField, Str(id)), Field(<<"confirm">>, Bool(TRUE))>>) }

\* calls checked one at a time: every modelled tool and argument shape
ToolInputs ==
    { Input("get_boards", a) : a \in
        { Undef, Args(<<>>),
          Args(<<Field(<<"filter">>, Str(<<"open">>)),
                 Field(<<"fields">>, Arr(<< <<"name">>, <<"url">> >>))>>),
          Args(<<Field(<<"key">>, Str(<<"x">>))>>) } }
    \cup { Input("get_board", a) : a \in
        { Undef, Args(<<Field(<<"boardId">>, Str(<<"abc123">>))>>),
          Args(<<Field(<<"boardId">>, Str(<<"abc123", "?", "fields", "=", "name">>))>>) } }
    \cup { Input("create_card", a) : a \in
        { Args(<<Field(<<"name">>, Str(<<"Task">>)), Field(<<"idList">>, Str(<<"list1">>))>>),
          Args(<<Field(<<"name">>, Str(<<"a", "&", "b">>)), Field(<<"key">>, Str(<<"x">>))>>),
          Args(<<>>) } }
    \cup { Input("delete_board", a) : a \in WithConfirm(<<"boardId">>, <<"b1">>) }
    \cup { Input("delete_card", a) : a \in WithConfirm(<<"cardId">>, <<"c1">>) \cup {Undef} }
    \cup { Input("delete_label", a) : a \in WithConfirm(<<"labelId">>, <<"l1">>) }
    \cup { Input("delete_checklist", a) : a \in WithConfirm(<<"checklistId">>, <<"cl1">>) }
    \cup { Input("delete_checkitem", a) : a \in
        { Args(<<Field(<<"checklistId">>, Str(<<"cl1">>)), Field(<<"checkItemId">>, Str(<<"ci1">>))>>),
          Args(<<Field(<<"checklistId">>, Str(<<"cl1">>)), Field(<<"checkItemId">>, Str(<<"ci1">>)),
                 Field(<<"confirm">>, Bool(TRUE))>>) } }
    \cup { Input("delete_attachment", a) : a \in
        { Args(<<Field(<<"cardId">>, Str(<<"c1">>)), Field(<<"attachmentId">>, Str(<<"a1">>))>>),
          Args(<<Field(<<"cardId">>, Str(<<"c1">>)), Field(<<"attachmentId">>, Str(<<"a1">>)),
                 Field(<<"confirm">>, Bool(TRUE))>>) } }
    \cup { Input("archive_card", Args(<<Field(<<"cardId">>, Str(<<"c1">>))>>)),
           Input("move_card_to_list",
                 Args(<<Field(<<"cardId">>, Str(<<"c1">>)), Field(<<"listId">>, Str(<<"list1">>))>>)),
           Input("set_due_date",
                 Args(<<Field(<<"cardId">>, Str(<<"c1">>)), Field(<<"due">>, Str(<<"2026-01-01">>))>>)),
           Input("set_due_date",
                 Args(<<Field(<<"cardId">>, Str(<<"c1">>)), Field(<<"due">>, Null)>>)),
           Input("set_due_complete",
                 Args(<<Field(<<"cardId">>, Str(<<"c1">>)), Field(<<"dueComplete">>, Bool(TRUE))>>)),
           Input("archive_card", Undef) }
    \cup { Input("get_avatar", a) : a \in
        { Args(<<>>), Args(<<Field(<<"size">>, Str(<<"original">>))>>),
          Args(<<Field(<<"size">>, Str(<<"50">>))>>) } }
    \cup { Input(n, Args(<<>>)) : n \in {"nonexistent_tool", "toString", "__proto__"} }

\* calls that run concurrently against the one Gateway
GatewayInputs ==
    { Input("get_board", Args(<<Field(<<"boardId">>, Str(<<"abc123">>))>>)),
      Input("delete_card", Args(<<Field(<<"cardId">>, Str(<<"c1">>))>>)),
      Input("nonexistent_tool", Args(<<>>)) }

\* what the remote service may answer
Bodies ==
    { Obj(<<Field(<<"id">>, Str(<<"r1">>))>>), Obj(<<Field(<<"id">>, Str(<<"r2">>))>>),
      Obj(<<Field(<<"id">>, Str(<<"m1">>)), Field(<<"avatarUrl">>, Str(<<"https://a/m1">>))>>) }
ErrorBody == Str(<<"invalid id">>)

HeaderChoices ==
    { NoHeaders,
      (RemainingHeader :> <<"3">>) @@ (ResetHeader :> <<"2">>),
      (RemainingHeader :> <<"5", "0">>),
      (ResetHeader :> <<"2">>) }

Response(st, h, d) == [status |-> st, headers |-> h, data |-> d]

Responses ==
    { Response(200, h, b) : h \in HeaderChoices, b \in Bodies }
    \cup { Response(st, h, ErrorBody) : st \in {429, 404, 500}, h \in HeaderChoices }
    \cup { Response(NetworkError, NoHeaders, Undef) }

\* the answers tried when calls run concurrently
GatewayResponses ==
    { r \in Responses :
        \/ r.status = 200 /\ r.data = Obj(<<Field(<<"id">>, Str(<<"r1">>))>>)
                          /\ DOMAIN r.headers = {RemainingHeader, ResetHeader}
        \/ r.status = 200 /\ r.data = Obj(<<Field(<<"id">>, Str(<<"r2">>))>>)
                          /\ r.headers = NoHeaders
        \/ r.status = 429 /\ DOMAIN r.headers = {ResetHeader}
        \/ r.status \in {404, NetworkError} /\ r.headers = NoHeaders }

\* what ServiceFactory.initialize set up once, before the first call
statics == <<credentials, instance, handlerTable, inits>>

vars == <<now, rateLimitRemaining, rateLimitReset, logs, pc, input, started, sends,
          resp, n429, wake, gw, adapter, raised, outcome, credentials, instance,
          handlerTable, inits>>

None == [k |-> "none"]

\* no call has been made yet
InitIdle ==
    /\ now = 0
    /\ logs = {}
    /\ pc = [c \in Calls |-> "idle"]
    /\ input = [c \in Calls |-> None]
    /\ started = [c \in Calls |-> None]
    /\ sends = [c \in Calls |-> <<>>]
    /\ resp = [c \in Calls |-> None]
    /\ n429 = [c \in Calls |-> 0]
    /\ wake = [c \in Calls |-> 0]
    /\ gw = [c \in Calls |-> None]
    /\ adapter = [c \in Calls |-> None]
    /\ handlerTable = trelloToolHandlers
    /\ raised = [c \in Calls |-> None]
    /\ outcome = [c \in Calls |-> None]

InitCalls ==
    /\ InitIdle
    /\ credentials = [apiKey |-> apiKey, token |-> token]
    /\ instance = [TrelloService |-> "TrelloService#1", ServiceFactory |-> "ServiceFactory#1"]
    /\ inits = <<[class |-> "ServiceFactory", apiKey |-> apiKey, token |-> token,
                  returned |-> "ServiceFactory#1"]>>

\* the process right after ServiceFactory.initialize
Init ==
    /\ rateLimitRemaining = InitialRemaining
    /\ rateLimitReset = InitialReset
    /\ InitCalls

\* the process after earlier calls left their counters behind
InitTools ==
    /\ rateLimitRemaining \in {InitialRemaining, 3}
    /\ rateLimitReset \in {InitialReset, 2}
    /\ InitCalls

\* ----------------------------------------------------------------- actions
ThrottleLog(w) == <<"Approaching rate limit. Waiting ">> \o Dec(w) \o <<" seconds...">>
RetryLog(w) == <<"Rate limit exceeded. Waiting ">> \o Dec(w) \o <<" seconds before retrying...">>

\* this.client.<verb>(url, data): the request leaves for the remote service
Send(c, req) ==
    /\ sends' = [sends EXCEPT ![c] = Append(@, req)]
    /\ wake' = [wake EXCEPT ![c] = 0]
    /\ pc' = [pc EXCEPT ![c] = "inflight"]

\* the CallTool handler returns or throws: the call is over
Finish(c, out) ==
    /\ outcome' = [outcome EXCEPT ![c] = out]
    /\ pc' = [pc EXCEPT ![c] = "done"]
    /\ started' = [started EXCEPT ![c] = None]

getInstanceFresh(inst) == [inst EXCEPT !.ServiceFactory = "ServiceFactory#2"]

\* ServiceFactory.getInstance(), the first statement of every handler: the
\* static instance fields it leaves behind
getInstance(inst) == inst

\* CallTool request handler, from the lookup of the handler up to the first
\* suspension: the throttle wait or the request in flight
CallTool(c, in) ==
    /\ pc[c] = "idle"
    /\ IF c = 1 THEN TRUE ELSE pc[c - 1] # "idle"
    /\ input' = [input EXCEPT ![c] = in]
    /\ LET look == Lookup(in.tool)
           eff == IF look = "undefined" THEN None
                  ELSE Handle(in.tool, in.args, instance.ServiceFactory)
       IN CASE look = "undefined" ->
                 /\ Finish(c, CatchConvert(MethodNotFound(in.tool)))
                 /\ logs' = logs \cup {DispatchLog(MethodNotFound(in.tool))}
                 /\ UNCHANGED <<sends, wake, raised>>
            [] eff.k = "throw" ->
                 LET err == [name |-> eff.name, msg |-> eff.msg]
                 IN /\ Finish(c, CatchConvert(err))
                    /\ raised' = [raised EXCEPT ![c] = [k |-> "error", err |-> err]]
                    /\ logs' = logs \cup {DispatchLog(err)}
                    /\ UNCHANGED <<sends, wake>>
            [] eff.k = "return" ->
                 /\ Finish(c, ResultPayload(eff.value))
                 /\ UNCHANGED <<logs, sends, wake, raised>>
            [] eff.k = "call" ->
                 LET w == checkRateLimit(rateLimitRemaining, rateLimitReset, now)
                 IN /\ started' = [started EXCEPT ![c] =
                          [k |-> "started", remaining |-> rateLimitRemaining,
                           reset |-> rateLimitReset]]
                    /\ IF w > 0
                       THEN /\ pc' = [pc EXCEPT ![c] = "throttle_wait"]
                            /\ wake' = [wake EXCEPT ![c] = now + w]
                            /\ logs' = logs \cup {ThrottleLog(w)}
                            /\ UNCHANGED sends
                       ELSE /\ Send(c, eff.req)
                            /\ UNCHANGED logs
                    /\ UNCHANGED <<raised, outcome>>
    /\ instance' = IF in.tool \in handlerTable THEN getInstance(instance) ELSE instance
    /\ UNCHANGED <<now, rateLimitRemaining, rateLimitReset, resp, n429, gw, adapter,
                   credentials, handlerTable, inits>>

makeRequestCatchFriendly(error) == [error EXCEPT !.msg = getFriendlyErrorMessage(error)]

\* the catch block of makeRequest: the error it throws for the one it caught
makeRequestCatch(error) == error

responseDataMemoized(c, r) ==
    LET same == {d \in Calls : d # c /\ gw[d].k = "ok" /\ sends[d][1] = sends[c][1]}
    IN IF same = {} THEN r.data ELSE gw[CHOOSE d \in same : TRUE].data

\* return response.data: what a verb hands back for the response of its request
responseData(c, r) == r.data

\* the throttle timer fires: makeRequest runs requestFn
ThrottleWake(c) ==
    /\ pc[c] = "throttle_wait"
    /\ now >= wake[c]
    /\ Send(c, Invoke(input[c].tool, input[c].args).req)
    /\ UNCHANGED <<now, rateLimitRemaining, rateLimitReset, logs, input, started, resp,
                   n429, gw, adapter, raised, outcome, statics>>

\* the remote service answers the call's request in flight; the response
\* interceptors run, then makeRequest, the handler and the CallTool handler
Respond(c, r) ==
    /\ pc[c] = "inflight"
    /\ IsRateLimited(r.status) => Len(sends[c]) < MaxSends
    /\ LET config == sends[c][Len(sends[c])]
           eff == Invoke(input[c].tool, input[c].args)
           ret == eff.ret
           err == makeRequestCatch(AxiosError(r.status, config, r.data))
           back == AdapterReturn(eff.then, responseData(c, r))
           thrown == [name |-> back.name, msg |-> back.msg]
       IN /\ resp' = [resp EXCEPT ![c] =
                [k |-> "resp", status |-> r.status, headers |-> r.headers,
                 data |-> r.data, config |-> config]]
          /\ CASE r.status = 200 ->
                    /\ rateLimitRemaining' = updateRemaining(rateLimitRemaining, r.headers)
                    /\ rateLimitReset' = updateReset(rateLimitReset, r.headers)
                    /\ gw' = [gw EXCEPT ![c] = [k |-> "ok", data |-> responseData(c, r)]]
                    /\ IF back.k = "throw"
                       THEN /\ adapter' = [adapter EXCEPT ![c] = [k |-> "fail", err |-> thrown]]
                            /\ raised' = [raised EXCEPT ![c] = [k |-> "error", err |-> thrown]]
                            /\ logs' = logs \cup {DispatchLog(thrown)}
                            /\ Finish(c, CatchConvert(thrown))
                       ELSE /\ adapter' = [adapter EXCEPT ![c] =
                                   [k |-> "ok", value |-> back.value]]
                            /\ Finish(c, ResultPayload(IF ret.t = "undef" THEN back.value
                                                        ELSE ret))
                            /\ UNCHANGED <<logs, raised>>
                    /\ UNCHANGED <<n429, wake>>
               [] r.status # 200 /\ IsRateLimited(r.status) ->
                    LET w == retryWaitTime(r.headers, now)
                    IN /\ n429' = [n429 EXCEPT ![c] = @ + 1]
                       /\ wake' = [wake EXCEPT ![c] = now + w]
                       /\ pc' = [pc EXCEPT ![c] = "retry_wait"]
                       /\ logs' = logs \cup {RetryLog(w)}
                       /\ UNCHANGED <<rateLimitRemaining, rateLimitReset, gw, adapter, raised,
                                      outcome, started>>
               [] OTHER ->
                    /\ logs' = logs \cup handleRequestError(err) \cup {DispatchLog(err)}
                    /\ gw' = [gw EXCEPT ![c] = [k |-> "fail", err |-> err]]
                    /\ adapter' = [adapter EXCEPT ![c] = [k |-> "fail", err |-> err]]
                    /\ raised' = [raised EXCEPT ![c] = [k |-> "error", err |-> err]]
                    /\ Finish(c, CatchConvert(err))
                    /\ UNCHANGED <<rateLimitRemaining, rateLimitReset, n429, wake>>
    /\ UNCHANGED <<now, input, sends, statics>>

RetryWakeCeiling(c) ==
    /\ pc[c] = "retry_wait"
    /\ now >= wake[c]
    /\ Len(sends[c]) < 2
    /\ Send(c, resp[c].config)
    /\ UNCHANGED <<now, rateLimitRemaining, rateLimitReset, logs, input, started, resp,
                   n429, gw, adapter, raised, outcome, statics>>

RetryWakeTwice(c) ==
    /\ pc[c] = "retry_wait"
    /\ now >= wake[c]
    /\ sends' = [sends EXCEPT ![c] = Append(Append(@, resp[c].config), resp[c].config)]
    /\ wake' = [wake EXCEPT ![c] = 0]
    /\ pc' = [pc EXCEPT ![c] = "inflight"]
    /\ UNCHANGED <<now, rateLimitRemaining, rateLimitReset, logs, input, started, resp,
                   n429, gw, adapter, raised, outcome, statics>>

RetryWakeReAuth(c) ==
    /\ pc[c] = "retry_wait"
    /\ now >= wake[c]
    /\ Send(c, [resp[c].config EXCEPT !.url = addAuth(@)])
    /\ UNCHANGED <<now, rateLimitRemaining, rateLimitReset, logs, input, started, resp,
                   n429, gw, adapter, raised, outcome, statics>>

\* the retry timer fires: this.client.request(error.config)
RetryWake(c) ==
    /\ pc[c] = "retry_wait"
    /\ now >= wake[c]
    /\ Send(c, resp[c].config)
    /\ UNCHANGED <<now, rateLimitRemaining, rateLimitReset, logs, input, started, resp,
                   n429, gw, adapter, raised, outcome, statics>>

\* one second passes
Tick ==
    /\ now < MaxTime
    /\ now' = now + 1
    /\ UNCHANGED <<rateLimitRemaining, rateLimitReset, logs, pc, input, started, sends,
                   resp, n429, wake, gw, adapter, raised, outcome, statics>>

Next ==
    \/ \E c \in Calls, in \in GatewayInputs : CallTool(c, in)
    \/ \E c \in Calls : ThrottleWake(c)
    \/ \E c \in Calls, r \in GatewayResponses : Respond(c, r)
    \/ \E c \in Calls : RetryWake(c)
    \/ Tick

Spec == Init /\ [][Next]_vars

\* one call at a time, over every modelled tool
NextTools ==
    \/ \E in \in ToolInputs : CallTool(1, in)
    \/ ThrottleWake(1)
    \/ \E r \in Responses : Respond(1, r)
    \/ RetryWake(1)
    \/ Tick

SpecTools == InitTools /\ [][NextTools]_vars

\* timers fire once their time has come, and time passes
FairTools == SpecTools /\ WF_vars(Tick) /\ WF_vars(ThrottleWake(1)) /\ WF_vars(RetryWake(1))

\* the remote service does not answer 429 for ever: the call's request in
\* flight is, sooner or later, answered with something else
FairDelivery ==
    /\ FairTools
    /\ SF_vars(\E r \in Responses : r.status # 429 /\ Respond(1, r))

\* -------------------------------------------- the four verbs, called directly
\* parameter values a caller of a verb can pass
ParamValues ==
    { Str(<<"open">>), Str(<<"a", "&", "b">>), Bool(TRUE),
      Arr(<< <<"name">>, <<"url">> >>), Arr(<<>>), Null, Undef }

\* parameter maps of up to two keys, in either insertion order
ParamMaps ==
    { Obj(<<>>) }
    \cup { Obj(<<Field(k, v)>>) : k \in {<<"filter">>, <<"fields">>}, v \in ParamValues }
    \cup { Obj(<<Field(<<"filter">>, v), Field(<<"fields">>, w)>>) :
              v \in ParamValues, w \in ParamValues }
    \cup { Obj(<<Field(<<"fields">>, v), Field(<<"filter">>, w)>>) :
              v \in ParamValues, w \in ParamValues }

VerbInputs ==
    { [verb |-> v, endpoint |-> <<"/cards/", "c1">>, data |-> d, params |-> p] :
        v \in {"get", "delete"}, d \in {Undef}, p \in ParamMaps \cup {Undef} }
    \cup { [verb |-> v, endpoint |-> <<"/cards/", "c1">>, data |-> d, params |-> p] :
        v \in {"post", "put"},
        d \in {Undef, Obj(<<Field(<<"name">>, Str(<<"n1">>))>>)},
        p \in ParamMaps \cup {Undef} }

\* the request a verb hands to the HTTP client
request(in) ==
    CASE in.verb = "get" -> get(in.endpoint, in.params)
      [] in.verb = "post" -> post(in.endpoint, in.data, in.params)
      [] in.verb = "put" -> put(in.endpoint, in.data, in.params)
      [] in.verb = "delete" -> delete(in.endpoint, in.params)

\* trelloService.<verb>(endpoint, data, params) called while the throttle
\* lets the request pass: makeRequest up to the request in flight
VerbCall(c, in) ==
    /\ pc[c] = "idle"
    /\ checkRateLimit(rateLimitRemaining, rateLimitReset, now) = 0
    /\ input' = [input EXCEPT ![c] = in]
    /\ started' = [started EXCEPT ![c] =
          [k |-> "started", remaining |-> rateLimitRemaining, reset |-> rateLimitReset]]
    /\ Send(c, request(in))
    /\ UNCHANGED <<now, rateLimitRemaining, rateLimitReset, logs, resp, n429, gw, adapter,
                   raised, outcome, statics>>

NextVerbs ==
    \/ \E in \in VerbInputs : VerbCall(1, in)
    \/ Tick

SpecVerbs == Init /\ [][NextVerbs]_vars

\* ------------------------------- calls of every resource type, in sequence
SharedInputs ==
    { Input("get_board", Args(<<Field(<<"boardId">>, Str(<<"abc123">>))>>)),
      Input("get_list", Args(<<Field(<<"listId">>, Str(<<"l1">>))>>)),
      Input("archive_card", Args(<<Field(<<"cardId">>, Str(<<"c1">>))>>)),
      Input("get_avatar", Args(<<>>)),
      Input("delete_label", Args(<<Field(<<"labelId">>, Str(<<"l1">>)),
                                   Field(<<"confirm">>, Bool(TRUE))>>)),
      Input("delete_checklist", Args(<<Field(<<"checklistId">>, Str(<<"cl1">>))>>)),
      Input("get_board_members", Args(<<Field(<<"boardId">>, Str(<<"b1">>))>>)),
      Input("get_board_labels", Args(<<Field(<<"boardId">>, Str(<<"b1">>))>>)),
      Input("nonexistent_tool", Args(<<>>)) }

SharedResponses ==
    { r \in Responses :
        /\ r.status \in {200, 404}
        /\ r.data \in {ErrorBody, Obj(<<Field(<<"id">>, Str(<<"r1">>))>>)}
        /\ DOMAIN r.headers = {RemainingHeader, ResetHeader} }

\* a call is made once the one before it is over
NextShared ==
    \/ \E c \in Calls, in \in SharedInputs :
          /\ IF c = 1 THEN TRUE ELSE pc[c - 1] = "done"
          /\ CallTool(c, in)
    \/ \E c \in Calls : ThrottleWake(c)
    \/ \E c \in Calls, r \in SharedResponses : Respond(c, r)
    \/ Tick

\* the startup counters, or counters that earlier calls left at the buffer
\* and just above it
InitShared ==
    /\ rateLimitRemaining \in {InitialRemaining, RateLimitBuffer + 1, RateLimitBuffer}
    /\ rateLimitReset \in {InitialReset, 2}
    /\ InitCalls

SpecShared == InitShared /\ [][NextShared]_vars

\* ------------------------------------------------------- initialization
\* the credential pairs an initialize call is made with
CredentialPairs ==
    { [apiKey |-> apiKey, token |-> token], [apiKey |-> <<"K2Y">>, token |-> <<"T2K">>] }

\* the fields of a TrelloService that does not exist yet
NoCredentials == [apiKey |-> <<"undefined">>, token |-> <<"undefined">>]

initializeTrelloAgain(st, p) ==
    [instance |-> [st.instance EXCEPT !.TrelloService = "TrelloService#2"],
     credentials |-> p]

\* TrelloService.initialize(apiKey, token): the static instance and its
\* credential fields afterwards
initializeTrello(st, p) ==
    IF st.instance.TrelloService = NotInitialized
    THEN [instance |-> [st.instance EXCEPT !.TrelloService = "TrelloService#1"],
          credentials |-> p]
    ELSE st

\* ServiceFactory.initialize(apiKey, token)
initializeFactory(st, p) ==
    IF st.instance.ServiceFactory = NotInitialized
    THEN LET trelloService == initializeTrello(st, p)
         IN [trelloService EXCEPT !.instance.ServiceFactory = "ServiceFactory#1"]
    ELSE st

\* the modules are loaded and main has not run
InitModules ==
    /\ rateLimitRemaining = InitialRemaining
    /\ rateLimitReset = InitialReset
    /\ InitIdle
    /\ credentials = NoCredentials
    /\ instance = [TrelloService |-> NotInitialized, ServiceFactory |-> NotInitialized]
    /\ inits = <<>>

\* one call of class.initialize(p.apiKey, p.token)
Initialize(class, p) ==
    /\ Len(inits) < MaxInits
    /\ LET st == [instance |-> instance, credentials |-> credentials]
           after == IF class = "TrelloService" THEN initializeTrello(st, p)
                    ELSE initializeFactory(st, p)
       IN /\ instance' = after.instance
          /\ credentials' = after.credentials
          /\ inits' = Append(inits, [class |-> class, apiKey |-> p.apiKey,
                                     token |-> p.token, returned |-> after.instance[class]])
    /\ UNCHANGED <<now, rateLimitRemaining, rateLimitReset, logs, pc, input, started, sends,
                   resp, n429, wake, gw, adapter, raised, outcome, handlerTable>>

NextInit ==
    \/ \E p \in CredentialPairs : Initialize("TrelloService", p)
    \/ \E p \in CredentialPairs : Initialize("ServiceFactory", p)
    \/ \E in \in GatewayInputs : CallTool(1, in)
    \/ \E r \in GatewayResponses : Respond(1, r)
    \/ RetryWake(1)
    \/ Tick

SpecInit == InitModules /\ [][NextInit]_vars

\* ------------------------------------------------------------ properties
Active == {c \in Calls : pc[c] # "idle"}

\* s contains sub as a contiguous run of tokens
Contains(s, sub) ==
    \E i \in 1..(Len(s) - Len(sub) + 1) : SubSeq(s, i, i + Len(sub) - 1) = sub

\* the query parameters called name in a URL
ParamCount(url, name) ==
    Cardinality({i \in 1..(Len(url) - 2) :
                    url[i] \in {"?", "&"} /\ url[i + 1] = name /\ url[i + 2] = "="})

AuthSuffix(sep) == <<sep, "key", "=">> \o apiKey \o <<"&", "token", "=">> \o token

EndsWithAuth(url) ==
    /\ Len(url) > Len(AuthSuffix("?"))
    /\ LET cut == Len(url) - Len(AuthSuffix("?"))
           head == SubSeq(url, 1, cut)
       IN SubSeq(url, cut + 1, Len(url)) = AuthSuffix(IF Includes(head, "?") THEN "&" ELSE "?")

\* C1: every request sent (first attempt or re-send) has a URL with exactly
\* one key= and exactly one token= parameter, placed after all caller
\* parameters, joined with & when a query string exists and with ? otherwise.
C1_OneKeyOneToken ==
    \A c \in Calls : \A i \in 1..Len(sends[c]) :
        /\ ParamCount(sends[c][i].url, "key") = 1
        /\ ParamCount(sends[c][i].url, "token") = 1
        /\ EndsWithAuth(sends[c][i].url)

HasReset(r) == r.k = "resp" /\ ResetHeader \in DOMAIN r.headers

\* C2: after a 429 whose reset time lies ahead, the call sends nothing while
\* the clock is before that reset time; and a call whose latest attempt was
\* answered 2xx has completed successfully with that attempt's body.
C2_RetryWaitsThenSucceeds ==
    /\ [][\A c \in Calls :
            (HasReset(resp[c]) /\ resp[c].status = 429
                /\ now < parseInt(resp[c].headers[ResetHeader]))
            => sends'[c] = sends[c]]_vars
    /\ [](\A c \in Calls :
            (resp[c].k = "resp" /\ resp[c].status = 200)
            => /\ pc[c] = "done"
               /\ gw[c] = [k |-> "ok", data |-> resp[c].data]
               /\ outcome[c].k = "result" /\ ~outcome[c].isError)

C2_Witness ==
    \E c \in Calls :
        /\ pc[c] = "done" /\ n429[c] >= 1 /\ Len(sends[c]) = n429[c] + 1
        /\ resp[c].status = 200 /\ gw[c].k = "ok"
        /\ RetryLog(1) \in logs

\* C3: a call that starts while tracked remaining is at or below the buffer
\* and the tracked reset time is ahead sends nothing before that reset time,
\* leaves its wait only by sending, and does send; no 429 is needed.
C3_PreflightThrottle ==
    /\ [][\A c \in Calls :
            (pc[c] = "idle" /\ rateLimitRemaining <= 5 /\ rateLimitReset > now)
            => sends'[c] = <<>>]_vars
    /\ [][\A c \in Calls :
            (started[c].k = "started" /\ started[c].remaining <= 5 /\ started[c].reset > now)
            => sends'[c] = sends[c]]_vars
    /\ [][\A c \in Calls :
            (pc[c] = "throttle_wait" /\ pc'[c] # "throttle_wait")
            => Len(sends'[c]) = 1]_vars
    /\ \A c \in Calls : (pc[c] = "throttle_wait") ~> (Len(sends[c]) >= 1)

C3_Witness ==
    /\ pc[1] = "inflight" /\ Len(sends[1]) = 1 /\ n429[1] = 0
    /\ started[1].k = "started" /\ started[1].remaining = 3 /\ started[1].reset = 2
    /\ now >= 2
    /\ ThrottleLog(2) \in logs

\* C4: no call ends with a 429: the Gateway never fails with status 429 and
\* the latest response of a finished call is never a 429.
C4_No429Surfaced ==
    \A c \in Calls :
        /\ gw[c].k = "fail" => gw[c].err.status # 429
        /\ (pc[c] = "done" /\ resp[c].k = "resp") => resp[c].status # 429
        /\ outcome[c].k = "result" => ~Contains(outcome[c].text, ErrorMessage(429))

C4_Witness ==
    \E c \in Calls : pc[c] = "done" /\ n429[c] >= 1 /\ gw[c].k \in {"ok", "fail"}

\* C5: a response that is neither 2xx nor 429, or a network failure, ends
\* the call in failure at once, and a finished call sends nothing more.
C5_NoRetryOnFailure ==
    /\ [](\A c \in Calls :
            (resp[c].k = "resp" /\ resp[c].status \notin {200, 429})
            => /\ pc[c] = "done"
               /\ gw[c].k = "fail" /\ gw[c].err.status = resp[c].status
               /\ outcome[c].k = "result" /\ outcome[c].isError
               /\ Len(sends[c]) = n429[c] + 1)
    /\ [][\A c \in Calls : pc[c] = "done" => sends'[c] = sends[c]]_vars

C5_Witness ==
    /\ \E c \in Calls : pc[c] = "done" /\ resp[c].k = "resp" /\ resp[c].status = 404
    /\ \E c \in Calls : pc[c] = "done" /\ resp[c].k = "resp" /\ resp[c].status = NetworkError

DeletionTools ==
    {"delete_board", "delete_card", "delete_label", "delete_checklist",
     "delete_checkitem", "delete_attachment"}

Confirmed(args) == args.t = "obj" /\ Get(args, <<"confirm">>) = Bool(TRUE)

\* C6: a deletion tool called without confirm, or with confirm false, fails
\* and sends no request.
C6_DeletionNeedsConfirm ==
    \A c \in Active :
        (input[c].tool \in DeletionTools /\ ~Confirmed(input[c].args))
        => /\ sends[c] = <<>>
           /\ pc[c] = "done"
           /\ outcome[c].k = "result" /\ outcome[c].isError

\* C7 as stated: a deletion tool called with confirm: true has sent exactly
\* one DELETE request when it finishes, whatever the remote service answered.
C7_ExactlyOneDelete ==
    \A c \in Active :
        (input[c].tool \in DeletionTools /\ Confirmed(input[c].args) /\ pc[c] = "done")
        => Len(sends[c]) = 1

DeleteTarget(toolName) ==
    CASE toolName = "delete_board" -> <<"/boards/", "b1">>
      [] toolName = "delete_card" -> <<"/cards/", "c1">>
      [] toolName = "delete_label" -> <<"/labels/", "l1">>
      [] toolName = "delete_checklist" -> <<"/checklists/", "cl1">>
      [] toolName = "delete_checkitem" -> <<"/checklists/", "cl1", "/checkItems/", "ci1">>
      [] toolName = "delete_attachment" -> <<"/cards/", "c1", "/attachments/", "a1">>

\* C7 amended: a deletion tool called with confirm: true sends only DELETE
\* requests for the named resource, one first attempt plus one re-send per
\* 429 received: exactly one request when no answer is a 429.
C7_OneDeletePer429 ==
    \A c \in Active :
        (input[c].tool \in DeletionTools /\ Confirmed(input[c].args))
        => /\ \A i \in 1..Len(sends[c]) :
                /\ sends[c][i].method = "DELETE"
                /\ sends[c][i].url = DeleteTarget(input[c].tool) \o AuthSuffix("?")
           /\ Len(sends[c]) <= n429[c] + 1
           /\ pc[c] \in {"inflight", "done"} => Len(sends[c]) = n429[c] + 1

C7_Witness ==
    /\ pc[1] = "done" /\ input[1].tool = "delete_board" /\ Confirmed(input[1].args)
    /\ n429[1] = 1 /\ Len(sends[1]) = 2 /\ gw[1].k = "ok"

\* C8: a tool name that is not in the handler table ends in a method-not-found
\* protocol error, not a result payload, and sends no request.
C8_UnknownToolNotFound ==
    \A c \in Active :
        input[c].tool \notin trelloToolHandlers
        => /\ pc[c] = "done"
           /\ outcome[c].k = "mcp_error" /\ outcome[c].code = "MethodNotFound"
           /\ sends[c] = <<>>

\* C9: an exception raised while running a handler, other than a protocol
\* error, ends the call with a result payload flagged isError whose text is
\* "Error: " followed by the exception's message; nothing is thrown.
C9_ExceptionsBecomePayload ==
    \A c \in Calls :
        (raised[c].k = "error" /\ raised[c].err.name # "McpError")
        => /\ pc[c] = "done"
           /\ outcome[c] = [k |-> "result", isError |-> TRUE,
                            text |-> <<"Error: ">> \o raised[c].err.msg]

C9_Witness ==
    /\ pc[1] = "done" /\ raised[1].k = "error" /\ raised[1].err.name = "AxiosError"
    /\ outcome[1].text = <<"Error: ", "Request failed with status code ", "4", "0", "4">>

\* C10: neither credential appears in any log line or in any payload handed
\* back to the caller.
C10_CredentialsNeverExposed ==
    /\ \A line \in logs : ~Contains(line, apiKey) /\ ~Contains(line, token)
    /\ \A c \in Calls :
          outcome[c].k # "none"
          => ~Contains(outcome[c].text, apiKey) /\ ~Contains(outcome[c].text, token)

\* the call has read the counters in checkRateLimit and its response has not
\* yet written them
PastCheck(c) == pc[c] \in {"inflight", "retry_wait"} /\ started[c].k = "started"

\* C11: the read of the counters in the throttle check and the later write
\* are serialized: no two calls are both past the throttle check, their
\* responses still outstanding, having read the same counter values.
C11_ThrottleSerialized ==
    \A c, d \in Calls :
        (c # d /\ PastCheck(c) /\ PastCheck(d)) => started[c] # started[d]

\* the step in which the call's request is answered 2xx
Succeeds(c) == pc[c] = "inflight" /\ pc'[c] = "done" /\ resp'[c].status = 200

\* C12: on a 2xx response each counter takes the number in its rate-limit
\* header when that header is present and keeps its value when it is absent,
\* and the Gateway returns the decoded body of the response unchanged.
C12_SuccessUpdatesCounters ==
    [][\A c \in Calls :
          Succeeds(c)
          => LET h == resp'[c].headers
             IN /\ rateLimitRemaining' =
                      IF RemainingHeader \in DOMAIN h THEN parseInt(h[RemainingHeader])
                      ELSE rateLimitRemaining
                /\ rateLimitReset' =
                      IF ResetHeader \in DOMAIN h THEN parseInt(h[ResetHeader])
                      ELSE rateLimitReset
                /\ gw'[c] = [k |-> "ok", data |-> resp'[c].data]]_vars

C12_Witness ==
    /\ pc[1] = "done" /\ resp[1].k = "resp" /\ resp[1].status = 200 /\ gw[1].k = "ok"
    /\ DOMAIN resp[1].headers = {RemainingHeader}
    /\ rateLimitRemaining = 50 /\ rateLimitReset = 2
    /\ n429[1] = 0 /\ ThrottleLog(2) \in logs

GetTools == {"get_boards", "get_board"}

\* C13: of two calls of a GET tool with identical arguments that both
\* succeeded, each sent its own request, and each one's result is the body
\* of the response to its own request.
C13_NoMemoization ==
    \A c, d \in Calls :
        (c # d /\ gw[c].k = "ok" /\ gw[d].k = "ok"
            /\ input[c] = input[d] /\ input[c].tool \in GetTools)
        => /\ Len(sends[c]) >= 1 /\ Len(sends[d]) >= 1
           /\ gw[d].data = resp[d].data
           /\ outcome[d] = ResultPayload(resp[d].data)

C13_Witness ==
    /\ pc[1] = "done" /\ pc[2] = "done" /\ input[1] = input[2]
    /\ input[1].tool = "get_board" /\ sends[1] = sends[2] /\ Len(sends[2]) = 1
    /\ gw[1].k = "ok" /\ gw[2].k = "ok"
    /\ resp[1].data = Obj(<<Field(<<"id">>, Str(<<"r1">>))>>)
    /\ resp[2].data = Obj(<<Field(<<"id">>, Str(<<"r2">>))>>)
    /\ outcome[2].text = Stringify(Obj(<<Field(<<"id">>, Str(<<"r2">>))>>))

\* the call was invoked with { field: <a string> }
HasString(c, tool, field) ==
    /\ input[c].tool = tool /\ input[c].args.t = "obj"
    /\ Get(input[c].args, field).t = "str"

\* C14: get_board with { boardId: b } sends only GET requests whose URL is
\* /boards/b followed by ?key=..&token=.. and nothing else, and when the
\* Gateway succeeds the result is the serialization of the response body.
C14_GetBoardEndToEnd ==
    \A c \in Active :
        HasString(c, "get_board", <<"boardId">>)
        => LET b == Get(input[c].args, <<"boardId">>).s
           IN /\ \A i \in 1..Len(sends[c]) :
                    /\ sends[c][i].method = "GET"
                    /\ sends[c][i].url = <<"/boards/">> \o b \o AuthSuffix("?")
              /\ pc[c] \in {"inflight", "done"} => Len(sends[c]) >= 1
              /\ gw[c].k = "ok" => outcome[c] = ResultPayload(resp[c].data)

\* C15: create_card with an argument object A sends only POST requests to
\* /cards whose body is A and whose query string is the key and token pair
\* alone, and when the Gateway succeeds it returns the body of the response.
C15_CreateCardEndToEnd ==
    \A c \in Active :
        (input[c].tool = "create_card" /\ input[c].args.t = "obj")
        => /\ \A i \in 1..Len(sends[c]) :
                 /\ sends[c][i].method = "POST"
                 /\ sends[c][i].url = <<"/cards">> \o AuthSuffix("?")
                 /\ sends[c][i].data = input[c].args
           /\ pc[c] \in {"inflight", "done"} => Len(sends[c]) >= 1
           /\ gw[c].k = "ok" => outcome[c] = ResultPayload(resp[c].data)

C15_Witness ==
    /\ pc[1] = "done" /\ input[1].tool = "create_card"
    /\ sends[1][1].data =
          Obj(<<Field(<<"name">>, Str(<<"Task">>)), Field(<<"idList">>, Str(<<"list1">>))>>)
    /\ gw[1].k = "ok"
    /\ outcome[1] = ResultPayload(Obj(<<Field(<<"id">>, Str(<<"r1">>))>>))

ConvenienceTools == {"archive_card", "move_card_to_list", "set_due_date", "set_due_complete"}

\* the one field a convenience tool hands to the generic update
Narrowed(toolName, args) ==
    CASE toolName = "archive_card" -> <<(<<"closed">>), Bool(TRUE)>>
      [] toolName = "move_card_to_list" -> <<(<<"idList">>), Get(args, <<"listId">>)>>
      [] toolName = "set_due_date" -> <<(<<"due">>), Get(args, <<"due">>)>>
      [] toolName = "set_due_complete" -> <<(<<"dueComplete">>), Get(args, <<"dueComplete">>)>>

\* the request of the adapter method a convenience tool stands for
ConvenienceMethod(toolName, args) ==
    CASE toolName = "archive_card" -> archiveCard(Get(args, <<"cardId">>))
      [] toolName = "move_card_to_list" ->
             moveCardToList(Get(args, <<"cardId">>), Get(args, <<"listId">>))
      [] toolName = "set_due_date" -> setDueDate(Get(args, <<"cardId">>), Get(args, <<"due">>))
      [] toolName = "set_due_complete" ->
             setDueComplete(Get(args, <<"cardId">>), Get(args, <<"dueComplete">>))

\* the handler threw before any Gateway call was made
FailedLocally(c) == raised[c].k = "error" /\ gw[c].k = "none"

\* C16: a tool handler invocation makes at most one Gateway call (one first
\* attempt, re-sent unchanged once per 429), and exactly one unless it fails
\* before the call; a convenience tool makes one update call: a PUT to the
\* card with the single narrowed field, as its adapter method issues it.
C16_OneGatewayCall ==
    \A c \in Active :
        input[c].tool \in trelloToolHandlers
        => /\ Len(sends[c]) <= n429[c] + 1
           /\ \A i \in 1..Len(sends[c]) : sends[c][i] = sends[c][1]
           /\ (pc[c] = "done" /\ ~FailedLocally(c))
                 => Len(sends[c]) = n429[c] + 1 /\ gw[c].k \in {"ok", "fail"}
           /\ (input[c].tool \in ConvenienceTools /\ input[c].args.t = "obj")
                 => /\ pc[c] \in {"inflight", "done"} => Len(sends[c]) = n429[c] + 1
                    /\ \A i \in 1..Len(sends[c]) :
                          /\ sends[c][i] =
                                [method |-> "PUT",
                                 url |-> <<"/cards/">>
                                            \o Get(input[c].args, <<"cardId">>).s
                                            \o AuthSuffix("?"),
                                 data |-> Obj(<<Narrowed(input[c].tool, input[c].args)>>)]
                          /\ sends[c][i] = ConvenienceMethod(input[c].tool, input[c].args)

C16_Witness ==
    /\ pc[1] = "done" /\ input[1].tool = "set_due_complete" /\ gw[1].k = "ok"
    /\ n429[1] = 1 /\ Len(sends[1]) = 2
    /\ sends[1][2].method = "PUT"
    /\ sends[1][2].data = Obj(<< <<(<<"dueComplete">>), Bool(TRUE)>> >>)

\* C17: whenever the Gateway call of an adapter method returns a value, the
\* adapter method returns exactly that value.
C17_AdapterReturnsGatewayValue ==
    \A c \in Calls :
        gw[c].k = "ok" => adapter[c] = [k |-> "ok", value |-> gw[c].data]

\* the error the HTTP client raised for the call's latest response
ClientError(c) == AxiosError(resp[c].status, resp[c].config, resp[c].data)

Pending(c) == pc[c] \in {"throttle_wait", "inflight", "retry_wait"}

\* C19: when waits elapse and some attempt is at last answered with a
\* non-429 response, the Gateway call (call 1, the one the single-call
\* specifications run) ends in success or failure; a call leaves the retry
\* loop only on a response that is not a 429, and after a 429 it always
\* sends again, however many attempts it has made.
C19_EventualDelivery ==
    /\ Pending(1) ~> (pc[1] = "done" /\ gw[1].k \in {"ok", "fail"})
    /\ [][\A c \in Calls :
            (pc[c] = "inflight" /\ pc'[c] # "inflight")
            => \/ resp'[c].status = 429 /\ pc'[c] = "retry_wait"
               \/ resp'[c].status # 429 /\ pc'[c] = "done"]_vars
    /\ [][\A c \in Calls :
            (pc[c] = "retry_wait" /\ pc'[c] # "retry_wait")
            => pc'[c] = "inflight" /\ Len(sends'[c]) = n429[c] + 1]_vars

C19_Witness ==
    /\ pc[1] = "done" /\ gw[1].k = "fail" /\ gw[1].err.status = NetworkError
    /\ n429[1] = MaxSends - 1 /\ Len(sends[1]) = MaxSends
    /\ RetryLog(0) \in logs

\* C20: no step of a call changes the credential pair, the singleton
\* Gateway and factory instances or the handler table; they are what
\* initialization made them.
C20_CallFrame ==
    /\ [][/\ credentials' = credentials
          /\ instance' = instance
          /\ handlerTable' = handlerTable]_vars
    /\ [](/\ credentials = [apiKey |-> apiKey, token |-> token]
          /\ instance.TrelloService = "TrelloService#1"
          /\ instance.ServiceFactory = "ServiceFactory#1"
          /\ handlerTable = trelloToolHandlers)

C20_Witness ==
    /\ pc[1] = "done" /\ gw[1].k = "ok" /\ pc[2] = "done" /\ gw[2].k = "fail"
    /\ rateLimitRemaining = 3 /\ rateLimitReset = 2
    /\ credentials = [apiKey |-> apiKey, token |-> token]
    /\ instance.ServiceFactory = "ServiceFactory#1"

\* a step of call c that puts a request on the wire
Sent(c) == sends'[c] # sends[c]

\* C21: every request of a call leaves right after a throttle check (the
\* call enters makeRequest, or its throttle wait ends), the re-send that
\* follows a 429 included, and a call that has succeeded or failed sends
\* nothing more.
C21_ThrottleBeforeEverySend ==
    [][\A c \in Calls :
          /\ Sent(c) => pc[c] \in {"idle", "throttle_wait"}
          /\ pc[c] = "done" => ~Sent(c)]_vars

\* the step in which the call's request in flight is answered
Answered(c) == pc[c] = "inflight" /\ pc'[c] # "inflight"

\* C22: right after a response that carries rate-limit headers, be it a 2xx,
\* a 429 or another error response, each tracked counter equals the number
\* in the header of that response.
C22_EveryResponseUpdatesCounters ==
    [][\A c \in Calls :
          Answered(c)
          => LET h == resp'[c].headers
             IN /\ RemainingHeader \in DOMAIN h
                   => rateLimitRemaining' = parseInt(h[RemainingHeader])
                /\ ResetHeader \in DOMAIN h
                   => rateLimitReset' = parseInt(h[ResetHeader])]_vars

\* C23: the Gateway sends a request again exactly once for each 429 it
\* receives: a call that reached the Gateway and is over has sent one request
\* plus one per 429 received, a call waiting to retry has sent as many as it
\* received 429s, and a call with a request in flight one more than that.
C23_OneResendPer429 ==
    \A c \in Calls :
        /\ (pc[c] = "done" /\ gw[c].k # "none") => Len(sends[c]) = 1 + n429[c]
        /\ pc[c] = "retry_wait" => Len(sends[c]) = n429[c]
        /\ pc[c] = "inflight" => Len(sends[c]) = 1 + n429[c]

C23_Witness ==
    /\ pc[1] = "done" /\ gw[1].k = "ok"
    /\ n429[1] = 2 /\ Len(sends[1]) = 3

\* how many times the credential pair appended by addAuth occurs in a URL
AuthPairs(url) ==
    Cardinality({i \in 1..Len(url) : \E sep \in {"?", "&"} :
                    /\ i + Len(AuthSuffix(sep)) - 1 <= Len(url)
                    /\ SubSeq(url, i, i + Len(AuthSuffix(sep)) - 1) = AuthSuffix(sep)})

\* C24: every re-send after a 429 is the request of the first attempt (same
\* method, same URL, same body), which is the request the adapter built from
\* the caller's arguments, and its URL holds the credential pair once.
C24_ResendIsSameRequest ==
    \A c \in Calls : \A i \in 2..Len(sends[c]) :
        /\ sends[c][i].method = sends[c][1].method
        /\ sends[c][i].url = sends[c][1].url
        /\ sends[c][i].data = sends[c][1].data
        /\ sends[c][i] = Invoke(input[c].tool, input[c].args).req
        /\ AuthPairs(sends[c][i].url) = 1

C24_Witness ==
    /\ pc[1] = "done" /\ n429[1] = 2 /\ Len(sends[1]) = 3
    /\ sends[1][3].method = "POST" /\ sends[1][3].data # Undef
    /\ Contains(sends[1][3].url, AuthSuffix("?"))

\* the step in which the call's request in flight is answered 429
RateLimited(c) == pc[c] = "inflight" /\ pc'[c] = "retry_wait"

\* C25: the wait computed after a 429 is never negative (the retry is never
\* due before the time of the response and the logged wait is its length);
\* after a 429 without a reset header the wait is zero: the retry is due
\* at once and stays due until the request is sent again.
C25_RetryWaitNeverNegative ==
    /\ [][\A c \in Calls :
            RateLimited(c)
            => /\ wake'[c] >= now
               /\ RetryLog(wake'[c] - now) \in logs'
               /\ ~HasReset(resp'[c]) => wake'[c] = now]_vars
    /\ [](\A c \in Calls :
            (pc[c] = "retry_wait" /\ ~HasReset(resp[c]))
            => /\ now >= wake[c]
               /\ RetryLog(0) \in logs)

\* a 429 without the header at time 3: the reset time it falls back to is in
\* the past, and the request goes out again at time 3
C25_Witness ==
    /\ pc[1] = "inflight" /\ n429[1] = 1 /\ Len(sends[1]) = 2
    /\ ~HasReset(resp[1]) /\ resp[1].status = 429
    /\ now = 3 /\ started[1].reset = 0
    /\ RetryLog(0) \in logs /\ ThrottleLog(2) \notin logs

\* the pieces of s between the occurrences of the token sep
RECURSIVE Split(_, _)
Split(s, sep) ==
    IF ~Includes(s, sep) THEN <<s>>
    ELSE LET i == CHOOSE k \in 1..Len(s) : s[k] = sep /\ \A j \in 1..(k - 1) : s[j] # sep
         IN <<SubSeq(s, 1, i - 1)>> \o Split(SubSeq(s, i + 1, Len(s)), sep)

\* what the remote service reads from a percent-encoded token
DecodeTok(c) ==
    CASE c = "%3F" -> "?"
      [] c = "%26" -> "&"
      [] c = "%3D" -> "="
      [] c = "%2C" -> ","
      [] OTHER -> c

Decode(s) == [i \in 1..Len(s) |-> DecodeTok(s[i])]

\* the path of a URL and its decoded query parameters, in order
PathOf(url) == Split(url, "?")[1]

ParsedQuery(url) ==
    LET cut == Len(PathOf(url)) + 1
        pairs == IF cut >= Len(url) THEN <<>> ELSE Split(SubSeq(url, cut + 1, Len(url)), "&")
    IN [k \in 1..Len(pairs) |->
          LET name == Split(pairs[k], "=")[1]
          IN <<Decode(name), Decode(SubSeq(pairs[k], Len(name) + 2, Len(pairs[k])))>>]

\* the text a parameter value is sent as: the elements of an array joined
\* by commas
SentAs(v) == IF v.t = "arr" THEN Join(v.a, ",") ELSE ToStr(v)

Present(p) == p[2].t \notin {"undef", "null"}

\* C26: whichever verb is called, the request goes to the endpoint with the
\* verb's method, and its query holds, in the key order of the caller's
\* parameter map, one parameter for each value that is not null or
\* undefined (an array as its elements joined by commas), followed by the
\* credentials; GET and DELETE requests carry no body.
C26_QueryFromParams ==
    \A c \in Calls : \A i \in 1..Len(sends[c]) :
        LET in == input[c]
            r == sends[c][i]
            kept == SelectSeq(Entries(in.params), Present)
        IN /\ r.method = CASE in.verb = "get" -> "GET" [] in.verb = "post" -> "POST"
                           [] in.verb = "put" -> "PUT" [] in.verb = "delete" -> "DELETE"
           /\ PathOf(r.url) = in.endpoint
           /\ ParsedQuery(r.url) =
                 [k \in 1..Len(kept) |-> <<kept[k][1], SentAs(kept[k][2])>>]
                 \o << <<(<<"key">>), apiKey>>, <<(<<"token">>), token>> >>
           /\ r.method \in {"GET", "DELETE"} => r.data = Undef

\* a DELETE whose parameter map holds an array and then a null value
C26_Witness ==
    /\ pc[1] = "inflight" /\ sends[1][1].method = "DELETE"
    /\ input[1].params = Obj(<<Field(<<"fields">>, Arr(<< <<"name">>, <<"url">> >>)),
                               Field(<<"filter">>, Null)>>)
    /\ sends[1][1].url = <<"/cards/", "c1", "?", "fields", "=", "name", "%2C", "url">>
                         \o AuthSuffix("&")

\* the credentials at the end of a URL are the pair p
EndsWithPair(url, p) ==
    LET tail == <<"key", "=">> \o p.apiKey \o <<"&", "token", "=">> \o p.token
    IN /\ Len(url) > Len(tail)
       /\ SubSeq(url, Len(url) - Len(tail) + 1, Len(url)) = tail

\* the step in which call c is made while the factory is not initialized
CalledTooEarly(c) ==
    /\ pc[c] = "idle" /\ pc'[c] # "idle"
    /\ instance.ServiceFactory = NotInitialized

\* C27: a tool called before the first initialize fails without a request
\* (with the getInstance error, unless its own confirmation test fails
\* first); every initialize call of a class returns the instance the first
\* one returned, whatever credentials it is given; an instance once set and
\* its credentials never change; and every request sent carries the pair
\* of the first initialize call.
C27_SingletonKeepsFirstCredentials ==
    /\ [][\A c \in Calls :
            CalledTooEarly(c)
            => /\ pc'[c] = "done" /\ sends'[c] = <<>>
               /\ input'[c].tool \in handlerTable
                  => outcome'[c].k = "result" /\ outcome'[c].isError
               /\ (input'[c].tool \in handlerTable \ ConfirmFirst)
                  => outcome'[c].text = <<"Error: ">> \o NotInitializedMessage]_vars
    /\ [][/\ instance.TrelloService # NotInitialized
             => /\ instance'.TrelloService = instance.TrelloService
                /\ credentials' = credentials
          /\ instance.ServiceFactory # NotInitialized
             => instance'.ServiceFactory = instance.ServiceFactory]_vars
    /\ [](\A i, j \in 1..Len(inits) :
            /\ inits[i].returned # NotInitialized
            /\ inits[i].class = inits[j].class => inits[i].returned = inits[j].returned)
    /\ [](\A c \in Calls : \A i \in 1..Len(sends[c]) :
            /\ inits # <<>>
            /\ EndsWithPair(sends[c][i].url, [apiKey |-> inits[1].apiKey,
                                              token |-> inits[1].token]))

\* two initialize calls with different credentials, then a request
C27_Witness ==
    /\ Len(inits) = 2 /\ inits[1].apiKey # inits[2].apiKey
    /\ inits[1].class = "TrelloService" /\ inits[2].class = "ServiceFactory"
    /\ inits[1].apiKey = <<"K2Y">>
    /\ pc[1] = "done" /\ gw[1].k = "ok" /\ n429[1] = 1
    /\ EndsWithPair(sends[1][2].url, [apiKey |-> <<"K2Y">>, token |-> <<"T2K">>])

\* the Gateway that the adapter of a tool delegates to
GatewayOf(toolName) == ServiceFactory(instance.TrelloService)[AdapterOf(toolName)]

\* call c follows a call whose request was answered 2xx with both headers
FollowsUpdate(c) ==
    /\ c > 1 /\ pc[c] # "idle" /\ started[c].k = "started"
    /\ resp[c - 1].k = "resp" /\ resp[c - 1].status = 200

\* C28: the adapters of all six resource types delegate to the one Gateway
\* instance, so a call reads, in its throttle check, the counters that the
\* response to the call before it left, whatever the resource types of the
\* two, and it waits for that reset time when that remaining is 5 or less.
C28_AdaptersShareGateway ==
    /\ \A a \in Adapters : ServiceFactory(instance.TrelloService)[a] = instance.TrelloService
    /\ \A c \in Calls :
          /\ (pc[c] # "idle" /\ input[c].tool \in handlerTable)
             => GatewayOf(input[c].tool) = instance.TrelloService
          /\ FollowsUpdate(c)
             => /\ GatewayOf(input[c].tool) = GatewayOf(input[c - 1].tool)
                /\ started[c].remaining = parseInt(resp[c - 1].headers[RemainingHeader])
                /\ started[c].reset = parseInt(resp[c - 1].headers[ResetHeader])
                /\ (started[c].remaining <= RateLimitBuffer /\ pc[c] = "inflight")
                   => now >= started[c].reset
                /\ (started[c].remaining <= RateLimitBuffer /\ pc[c] = "throttle_wait")
                   => wake[c] = started[c].reset

\* a label deletion waits for the reset time that a board read's response set
C28_Witness ==
    /\ pc[1] = "done" /\ gw[1].k = "ok" /\ input[1].tool = "get_board"
    /\ pc[2] = "throttle_wait" /\ input[2].tool = "delete_label"
    /\ started[2].remaining = 3 /\ wake[2] = 2 /\ now = 1
    /\ AdapterOf(input[1].tool) # AdapterOf(input[2].tool)

\* the step in which call c enters makeRequest: it runs the throttle check
Checks(c) == pc[c] = "idle" /\ pc'[c] \in {"throttle_wait", "inflight"}

\* C29: the throttle check delays a call only when the tracked remaining is
\* 5 or less and the tracked reset time lies ahead; otherwise the request
\* is sent in the same step, as is that of a call made in the startup state
\* (remaining 100, reset 0); and no step of a call that is about to wait, is
\* waiting or ends its wait in the throttle changes either counter.
C29_ThrottleOnlyWhenLow ==
    [][\A c \in Calls :
          /\ Checks(c)
             => /\ (rateLimitRemaining > 5 \/ rateLimitReset <= now)
                   => pc'[c] = "inflight" /\ Len(sends'[c]) = 1 /\ logs' = logs
                /\ (rateLimitRemaining = InitialRemaining /\ rateLimitReset = InitialReset)
                   => pc'[c] = "inflight"
                /\ pc'[c] = "throttle_wait"
                   => /\ rateLimitRemaining <= 5 /\ rateLimitReset > now
                      /\ wake'[c] = rateLimitReset
          /\ (pc'[c] = "throttle_wait" \/ (pc[c] = "throttle_wait" /\ Sent(c)))
             => /\ rateLimitRemaining' = rateLimitRemaining
                /\ rateLimitReset' = rateLimitReset]_vars

\* remaining one above the buffer and a reset time ahead: sent at once
C29_Witness ==
    /\ pc[1] = "inflight" /\ Len(sends[1]) = 1 /\ n429[1] = 0
    /\ started[1].remaining = RateLimitBuffer + 1 /\ started[1].reset = 2
    /\ now = 0 /\ logs = {}

\* the names defined by more than one handler group
Shadowed == {n \in trelloToolHandlers : Len(Defining(n)) > 1}

\* C30: the advertised tool names are exactly the names of the merged
\* handler table, so a call of an advertised tool finds its handler and only
\* a call of a name that is not advertised ends in MethodNotFound; the names
\* defined twice are get_board_members and get_board_labels, and for them
\* every group's handler issues the request that the call sends.
C30_AdvertisedEqualsHandled ==
    /\ Names(trelloTools) = handlerTable
    /\ Shadowed = {"get_board_members", "get_board_labels"}
    /\ \A c \in Calls :
          pc[c] # "idle"
          => LET name == input[c].tool
             IN /\ name \in Names(trelloTools) <=> Lookup(name) = "handler"
                /\ outcome[c] = CatchConvert(MethodNotFound(name))
                   => name \notin Names(trelloTools)
                /\ name \in Shadowed
                   => \A g \in Names(Defining(name)) : \A i \in 1..Len(sends[c]) :
                         /\ HandlerIn(g, name, input[c].args).k = "call"
                         /\ sends[c][i] = HandlerIn(g, name, input[c].args).req

\* the member group's get_board_members has run, and a label read after it
C30_Witness ==
    /\ pc[1] = "done" /\ gw[1].k = "ok" /\ input[1].tool = "get_board_members"
    /\ Winner("get_board_members") = "member"
    /\ sends[1][1].url = <<"/boards/", "b1", "/members">> \o AuthSuffix("?")
    /\ pc[2] = "inflight" /\ input[2].tool = "get_board_labels"
    /\ sends[2][1].url = <<"/boards/", "b1", "/labels">> \o AuthSuffix("?")

====
